---- MODULE Spec2Model ----
(***************************************************************************)
(* The refresh pipeline of country_xchange_api.                            *)
(*                                                                         *)
(* The repository holds two implementations of the pipeline that were      *)
(* never meant to coexist:                                                 *)
(*   - src/main.py: the FastAPI handler refresh_countries (table           *)
(*     CountryModel, no status table);                                     *)
(*   - src/src/core/logic.py: the script refresh_main (tables Country and  *)
(*     ApiStatus of src/src/models.py).                                    *)
(* The variable program fixes, in the initial state, which of the two runs *)
(* against the store; every behaviour is a behaviour of one of them.       *)
(*                                                                         *)
(* Both create their sessions with autoflush=False: an object added to     *)
(* the session is invisible to the session's queries until the commit      *)
(* flushes it.  The session is modelled as the unit of work it is: work    *)
(* holds the in-memory values of the persistent rows, pending the added    *)
(* objects, and queries are answered from the committed table.             *)
(*                                                                         *)
(* Columns capital and flag_url are copied verbatim from the fetched       *)
(* record by both implementations and are left out of the rows.            *)
(***************************************************************************)
EXTENDS Integers, Sequences, FiniteSets, TLC

VARIABLES
    program,          \* "main.py" or "logic.py": the implementation that runs
    pc,               \* position of the refresh cycle
    now,              \* the clock read by datetime.utcnow(), in microsecond ticks
    countries,        \* committed rows of table countries, in rowid order
    api_status,       \* committed rows of table api_status (last_updated values)
    countries_data,   \* the fetched country list of the current cycle
    exchange_data,    \* the fetched currency -> rate mapping of the current cycle
    countries_ok,     \* whether the country source answered in this cycle
    rates_ok,         \* whether the rate source answered in this cycle
    idx,              \* position of the loop over countries_data
    refresh_time,     \* the cycle's timestamp (refresh_timestamp, current_refresh_time)
    work,             \* session: in-memory values of the persistent country rows
    pending,          \* session: country objects added and not yet flushed
    updated,          \* indices of the persistent rows the cycle has written to
    status_work,      \* session: in-memory values of the persistent status rows
    status_pending,   \* session: status objects added and not yet flushed
    total,            \* the total row count the cycle reports
    result,           \* how the last cycle ended ("none" while one runs)
    rerun,            \* the cycle fetched what the cycle before it, a success, fetched
    image,            \* what cache/summary.png shows (None: no file)
    render_ok,        \* whether the last call of generate_summary_image returned
    query,            \* the last GET /countries request and its answer (None: none yet)
    overlap           \* the refresh invocation that overlapped this one (None: none)

vars == <<program, pc, now, countries, api_status, countries_data, exchange_data,
          countries_ok, rates_ok, idx, refresh_time, work, pending, updated,
          status_work, status_pending, total, result, rerun, image, render_ok,
          query, overlap>>

(***************************************************************************)
(* Bounds of the model.                                                    *)
(***************************************************************************)
MaxTime == 2       \* clock readings 0..MaxTime; every cycle takes one tick
MaxBatch == 2      \* longest fetched country list
MicroPerSec == 2   \* ticks per second: every second tick has microsecond = 0
MaxCalls == 3      \* update_global_status calls of the behaviours of SpecStatus

(***************************************************************************)
(* Python values.  None is the empty tuple, any other value v is <<v>>.    *)
(***************************************************************************)
None == <<>>
Some(v) == <<v>>
Val(o) == o[1]

\* str.lower() / SQL lower() on the names of the model.
Lower(s) == CASE s = "Chad" -> "chad"
              [] s = "CHAD" -> "chad"
              [] OTHER -> s

\* datetime.isoformat(): "YYYY-MM-DDTHH:MM:SS" and, only when the microsecond
\* is not zero, ".ffffff" after it.  A string is the tuple of its fields.
isoformat(t) == IF t % MicroPerSec = 0
                THEN <<t \div MicroPerSec>>
                ELSE <<t \div MicroPerSec, t % MicroPerSec>>

\* Lexicographic order of two isoformat strings (string comparison).
StrLeq(a, b) ==
    \/ a[1] < b[1]
    \/ /\ a[1] = b[1]
       /\ \/ Len(a) = 1
          \/ Len(a) = 2 /\ Len(b) = 2 /\ a[2] <= b[2]

(***************************************************************************)
(* What the two external sources can answer.                               *)
(***************************************************************************)
Malformed == "null"      \* a currencies entry that is no JSON object
\* A string that is searched is the tuple of its characters.
Africa == <<"A", "f", "r", "i", "c", "a">>
Asia == <<"A", "s", "i", "a">>
\* The region the source reports with a name (none for an uninhabited island).
region_of(n) == CASE n \in {Some("Chad"), Some("CHAD")} -> Some(Africa)
                  [] n = Some("Laos") -> Some(Asia)
                  [] OTHER -> None
Record(n, p, c) == [name |-> n, population |-> p, currencies |-> c, region |-> region_of(n)]
\* The well-formed records of one country under two spellings, with and
\* without a currency, and one record for each defect a record can have.
FetchedRecords ==
    {Record(Some(n), Some(2), c) : n \in {"Chad", "CHAD"}, c \in {<<>>, <<"USD">>}}
    \cup {Record(None, Some(2), <<>>),            \* no name
          Record(Some("Chad"), None, <<>>),       \* no population
          Record(Some("Chad"), Some(0), <<>>),    \* population zero
          Record(Some("Chad"), Some(2), <<Malformed>>)}

RECURSIVE SeqsUpTo(_, _)
SeqsUpTo(S, n) == IF n = 0 THEN {<<>>}
                  ELSE LET shorter == SeqsUpTo(S, n - 1)
                       IN  shorter \cup {Append(s, x) : s \in {q \in shorter : Len(q) = n - 1}, x \in S}

Batches == SeqsUpTo(FetchedRecords, MaxBatch)
EmptyMap == [c \in {} |-> 0]
RateMaps == {EmptyMap, "USD" :> 2}

\* random.uniform(1000, 2000) of calculate_gdp
Multipliers == {1000, 2000}
\* random.uniform(0.5, 1.5) of process_and_save_countries, in halves
HalfMultipliers == {1, 3}

(***************************************************************************)
(* Queries.  Without ORDER BY, first() answers the matching row of lowest  *)
(* rowid; the tables are kept in rowid order.                              *)
(***************************************************************************)
FirstIndex(hits) ==
    IF hits = {} THEN 0 ELSE CHOOSE k \in hits : \A j \in hits : k <= j

\* Mutant of find_existing_api: only the fetched name is lower-cased.
find_existing_api_one_sided(tbl, name) ==
    FirstIndex({k \in 1..Len(tbl) : Val(tbl[k].name) = Lower(Val(name))})

\* main.py: filter(func.lower(CountryModel.name) == name.lower()).first()
find_existing_api(tbl, name) ==
    FirstIndex({k \in 1..Len(tbl) : Lower(Val(tbl[k].name)) = Lower(Val(name))})

\* logic.py: filter(Country.name == country_name).first(); a name of None
\* compiles to IS NULL, which no stored row satisfies (name is NOT NULL).
find_existing_script(tbl, name) ==
    FirstIndex({k \in 1..Len(tbl) : name # None /\ tbl[k].name = name})

(***************************************************************************)
(* main.py, the loop body of refresh_countries.                            *)
(***************************************************************************)
calculate_gdp(population, exchange_rate, m) ==
    IF exchange_rate = None \/ exchange_rate = Some(0)
    THEN None
    ELSE Some((population * m) \div Val(exchange_rate))

\* "if not name: continue" and "if not population: continue"
api_skips(r) == r.name = None \/ r.population \in {None, Some(0)}

\* currencies[0].get("code") raises AttributeError on an entry that is no object
currency_raises(r) == r.currencies # <<>> /\ r.currencies[1] = Malformed

currency_of(r) == IF r.currencies = <<>> THEN None ELSE Some(r.currencies[1])

api_fields(r, rates, m, ts) ==
    LET code == currency_of(r)
        known == code # None /\ Val(code) \in DOMAIN rates
        rate == IF known THEN Some(rates[Val(code)]) ELSE None
        gdp == IF code = None THEN Some(0)
               ELSE IF known THEN calculate_gdp(Val(r.population), rate, m)
               ELSE None
    IN  [name |-> r.name, region |-> r.region, population |-> r.population,
         currency_code |-> code, exchange_rate |-> rate, estimated_gdp |-> gdp,
         last_refreshed_at |-> ts]

\* Mutant of api_update: the update branch does not assign last_refreshed_at.
api_update_keeps_stamp(row, f) ==
    [f EXCEPT !.name = row.name, !.last_refreshed_at = row.last_refreshed_at]

\* The update branch assigns every column but name.
api_update(row, f) == [f EXCEPT !.name = row.name]

(***************************************************************************)
(* logic.py, the loop body of process_and_save_countries.                  *)
(***************************************************************************)
script_fields(r, rates, h, ts) ==
    LET code == currency_of(r)
        \* exchange_data.get(currency_code, 1.0)
        rate == IF code # None /\ Val(code) \in DOMAIN rates THEN rates[Val(code)] ELSE 1
        \* population * exchange_rate * random.uniform(0.5, 1.5)
        gdp == IF rate # 0 /\ r.population # None
               THEN Some((Val(r.population) * rate * h) \div 2)
               ELSE None
    IN  [name |-> r.name, region |-> r.region, population |-> r.population,
         currency_code |-> code, exchange_rate |-> Some(rate), estimated_gdp |-> gdp,
         last_refreshed_at |-> isoformat(ts)]

(***************************************************************************)
(* The flush of a commit and the constraints of the two schemas.           *)
(***************************************************************************)
\* Column(DateTime, onupdate=datetime.utcnow): an UPDATE that does not set
\* last_refreshed_at (its value is the stored one) while another column changed
\* gets the time of the flush.
on_update(old, new, t) ==
    IF new # old /\ new.last_refreshed_at = old.last_refreshed_at
    THEN [new EXCEPT !.last_refreshed_at = t]
    ELSE new

flush_api(tbl, wrk, pend, t) ==
    [k \in 1..Len(tbl) |-> on_update(tbl[k], wrk[k], t)] \o pend

\* Mutant of flush_script: the table is replaced by the rows the cycle added.
flush_script_pending_only(wrk, pend) == pend

flush_script(wrk, pend) == wrk \o pend

not_null(tbl) == \A k \in 1..Len(tbl) : tbl[k].name # None /\ tbl[k].population # None

\* CountryModel: name unique=True, nullable=False; population nullable=False
constraints_api(tbl) ==
    /\ not_null(tbl)
    /\ \A j, k \in 1..Len(tbl) : j # k => tbl[j].name # tbl[k].name

\* Country: name nullable=False (not unique); population nullable=False
constraints_script(tbl) == not_null(tbl)

(***************************************************************************)
(* logic.py, update_global_status: the first status row by id, as the      *)
(* session's query sees it, is updated; with none, a row is added.         *)
(***************************************************************************)
\* Mutant of update_global_status: a row is added whether or not one exists.
update_global_status_always_adds(committed, swork, spending, t) ==
    [work |-> swork, pending |-> Append(spending, isoformat(t))]

update_global_status(committed, swork, spending, t) ==
    IF Len(committed) = 0
    THEN [work |-> swork, pending |-> Append(spending, isoformat(t))]
    ELSE [work |-> [swork EXCEPT ![1] = isoformat(t)], pending |-> spending]

(***************************************************************************)
(* main.py, generate_summary_image: what the image shows, read from the    *)
(* committed rows through the handler's session.                           *)
(***************************************************************************)
TopCount == 5      \* .limit(5)

\* ORDER BY key DESC: the row indices by descending key; rows of equal key
\* come in rowid order.
desc_order(keys) ==
    [p \in 1..Len(keys) |->
        CHOOSE k \in 1..Len(keys) :
            Cardinality({j \in 1..Len(keys) :
                            keys[j] > keys[k] \/ (keys[j] = keys[k] /\ j < k)}) = p - 1]

has_gdp(row) == row.estimated_gdp # None

\* filter(estimated_gdp.isnot(None)).order_by(estimated_gdp.desc()).limit(5)
top_countries(tbl) ==
    LET rows == SelectSeq(tbl, has_gdp)
        ord == desc_order([k \in 1..Len(rows) |-> Val(rows[k].estimated_gdp)])
        n == IF Len(rows) < TopCount THEN Len(rows) ELSE TopCount
    IN  [p \in 1..n |-> <<rows[ord[p]].name, rows[ord[p]].estimated_gdp>>]

\* db.query(func.max(CountryModel.last_refreshed_at)).scalar(): None on an
\* empty table.
max_last_refreshed_at(tbl) ==
    IF Len(tbl) = 0 THEN None
    ELSE Some(CHOOSE t \in {tbl[k].last_refreshed_at : k \in 1..Len(tbl)} :
                  \A k \in 1..Len(tbl) : tbl[k].last_refreshed_at <= t)

summary_image(tbl) ==
    [total |-> Len(tbl), top |-> top_countries(tbl),
     last_refresh |-> max_last_refreshed_at(tbl)]

(***************************************************************************)
(* The initial state: the tables exist and are empty (create_all), no      *)
(* cycle has run.                                                          *)
(***************************************************************************)
Init ==
    /\ program \in {"main.py", "logic.py"}
    /\ pc = "idle"
    /\ now = 0
    /\ countries = <<>>
    /\ api_status = <<>>
    /\ countries_data = <<>>
    /\ exchange_data = EmptyMap
    /\ countries_ok = TRUE
    /\ rates_ok = TRUE
    /\ idx = 1
    /\ refresh_time = 0
    /\ work = <<>>
    /\ pending = <<>>
    /\ updated = {}
    /\ status_work = <<>>
    /\ status_pending = <<>>
    /\ total = 0
    /\ result = "none"
    /\ rerun = FALSE
    /\ image = None
    /\ render_ok = TRUE
    /\ query = None
    /\ overlap = None

\* db.rollback() / db.close(): the session forgets what it holds.
session_closed ==
    /\ work' = <<>>
    /\ pending' = <<>>
    /\ status_work' = <<>>
    /\ status_pending' = <<>>

session_kept == UNCHANGED <<work, pending, status_work, status_pending>>

(***************************************************************************)
(* main.py, POST /countries/refresh.                                       *)
(***************************************************************************)
\* db = next(get_db()); countries_data = await fetch_countries().  The source
\* answers with a list or the fetch raises HTTPException(503), which the
\* handler answers with db.rollback() and re-raises.
fetch_countries ==
    /\ program = "main.py"
    /\ pc = "idle"
    /\ now < MaxTime
    /\ now' = now + 1
    /\ idx' = 1
    /\ updated' = {}
    /\ total' = 0
    /\ rates_ok' = TRUE
    /\ \/ /\ countries_ok' = FALSE
          /\ countries_data' = <<>>
          /\ rerun' = FALSE
          /\ result' = "503"
          /\ pc' = "idle"
          /\ session_closed
       \/ /\ countries_ok' = TRUE
          /\ countries_data' \in Batches
          /\ rerun' = (result = "ok" /\ countries_data' = countries_data)
          /\ result' = "none"
          /\ pc' = "rates"
          /\ session_kept
    /\ UNCHANGED <<program, countries, api_status, exchange_data, refresh_time>>
    /\ overlap' = None
    /\ UNCHANGED <<image, render_ok, query>>

\* exchange_rates = await fetch_exchange_rates(); refresh_timestamp = utcnow().
\* From here to its response the handler awaits nothing; its session loads
\* the rows its loop queries.
fetch_exchange_rates ==
    /\ pc = "rates"
    /\ \/ /\ rates_ok' = FALSE
          /\ result' = "503"
          /\ rerun' = FALSE
          /\ pc' = "idle"
          /\ session_closed
          /\ UNCHANGED <<exchange_data, refresh_time>>
       \/ /\ rates_ok' = TRUE
          /\ exchange_data' \in RateMaps
          /\ rerun' = (rerun /\ exchange_data' = exchange_data)
          /\ refresh_time' = now
          /\ pc' = "loop"
          /\ work' = countries
          /\ pending' = <<>>
          /\ UNCHANGED <<status_work, status_pending>>
          /\ UNCHANGED result
    /\ UNCHANGED <<program, now, countries, api_status, countries_data, countries_ok,
                   idx, updated, total>>
    /\ UNCHANGED <<image, render_ok, query, overlap>>

\* One pass of "for country_data in countries_data", with its try/except.
refresh_countries_record ==
    /\ program = "main.py"
    /\ pc = "loop"
    /\ idx <= Len(countries_data)
    /\ idx' = idx + 1
    /\ LET r == countries_data[idx]
           existing == find_existing_api(countries, r.name)
       IN  IF api_skips(r) \/ currency_raises(r)
           THEN UNCHANGED <<work, pending, updated>>
           ELSE \E m \in Multipliers :
                   LET f == api_fields(r, exchange_data, m, refresh_time)
                   IN  IF existing # 0
                       THEN /\ work' = [work EXCEPT ![existing] = api_update(@, f)]
                            /\ updated' = updated \cup {existing}
                            /\ UNCHANGED pending
                       ELSE /\ pending' = Append(pending, f)
                            /\ UNCHANGED <<work, updated>>
    /\ UNCHANGED <<program, pc, now, countries, api_status, countries_data, exchange_data,
                   countries_ok, rates_ok, refresh_time, status_work, status_pending,
                   total, result, rerun>>
    /\ UNCHANGED <<image, render_ok, query, overlap>>

\* db.commit(); a commit that raises is answered by db.rollback() and a 500.
\* After a commit that went through, the handler goes on to the image.
refresh_countries_commit ==
    /\ program = "main.py"
    /\ pc = "loop"
    /\ idx > Len(countries_data)
    /\ LET tbl == flush_api(countries, work, pending, now)
       IN  IF constraints_api(tbl)
           THEN /\ countries' = tbl
                /\ result' = "ok"
                /\ pc' = "render"
           ELSE /\ result' = "500"
                /\ pc' = "idle"
                /\ UNCHANGED countries
    /\ session_closed
    /\ UNCHANGED <<program, now, api_status, countries_data, exchange_data, countries_ok,
                   rates_ok, idx, refresh_time, updated, total, rerun>>
    /\ UNCHANGED <<image, render_ok, query, overlap>>

\* Mutant of generate_summary_image: the call stands outside its try, so an
\* exception of the renderer reaches the handler's "except Exception".
generate_summary_image_unguarded ==
    /\ pc = "render"
    /\ \/ /\ render_ok' = TRUE
          /\ image' = Some(summary_image(countries))
          /\ total' = Len(countries)
          /\ UNCHANGED result
       \/ /\ render_ok' = FALSE
          /\ result' = "500"
          /\ UNCHANGED <<image, total>>
    /\ pc' = "idle"
    /\ UNCHANGED <<program, now, countries, api_status, countries_data, exchange_data,
                   countries_ok, rates_ok, idx, refresh_time, work, pending, updated,
                   status_work, status_pending, rerun, query, overlap>>

\* try: generate_summary_image(db) / except Exception: print(...); then
\* total = db.query(CountryModel).count() and the success response.  The image
\* file is written by the last statement of the renderer (img.save).
generate_summary_image ==
    /\ pc = "render"
    /\ \/ /\ render_ok' = TRUE
          /\ image' = Some(summary_image(countries))
       \/ /\ render_ok' = FALSE
          /\ UNCHANGED image
    /\ total' = Len(countries)
    /\ pc' = "idle"
    /\ UNCHANGED <<program, now, countries, api_status, countries_data, exchange_data,
                   countries_ok, rates_ok, idx, refresh_time, work, pending, updated,
                   status_work, status_pending, result, rerun, query, overlap>>

(***************************************************************************)
(* logic.py, refresh_main.                                                 *)
(***************************************************************************)
\* fetch_external_data() swallows the failure of either fetch and answers
\* {} or []; refresh_main aborts on "not countries_data", else reads the
\* clock and opens the session.
fetch_external_data ==
    /\ program = "logic.py"
    /\ pc = "idle"
    /\ now < MaxTime
    /\ now' = now + 1
    /\ idx' = 1
    /\ updated' = {}
    /\ total' = 0
    /\ \/ rates_ok' = FALSE /\ exchange_data' = EmptyMap
       \/ rates_ok' = TRUE /\ exchange_data' \in RateMaps
    /\ \/ countries_ok' = FALSE /\ countries_data' = <<>>
       \/ countries_ok' = TRUE /\ countries_data' \in Batches
    /\ rerun' = /\ result = "ok"
                /\ rates_ok' /\ rates_ok /\ countries_ok'
                /\ countries_data' = countries_data
                /\ exchange_data' = exchange_data
    /\ IF countries_data' = <<>>
       THEN /\ result' = "aborted"
            /\ pc' = "idle"
            /\ session_closed
            /\ UNCHANGED refresh_time
       ELSE /\ result' = "none"
            /\ pc' = "loop"
            /\ refresh_time' = now'
            /\ work' = countries
            /\ pending' = <<>>
            /\ status_work' = api_status
            /\ status_pending' = <<>>
    /\ UNCHANGED <<program, countries, api_status>>
    /\ overlap' = None
    /\ UNCHANGED <<image, render_ok, query>>

\* One pass of "for country_info in countries_data".  Nothing catches an
\* exception here: it leaves the with block, get_db_session rolls back and
\* re-raises, and refresh_main reports the fatal error.
process_and_save_countries ==
    /\ program = "logic.py"
    /\ pc = "loop"
    /\ idx <= Len(countries_data)
    /\ LET r == countries_data[idx]
           existing == find_existing_script(countries, r.name)
       IN  IF currency_raises(r)
           THEN /\ result' = "fatal"
                /\ pc' = "idle"
                /\ session_closed
                /\ UNCHANGED <<idx, updated>>
           ELSE /\ idx' = idx + 1
                /\ \E h \in HalfMultipliers :
                      LET f == script_fields(r, exchange_data, h, refresh_time)
                      IN  IF existing # 0
                          THEN /\ work' = [work EXCEPT ![existing] = f]
                               /\ updated' = updated \cup {existing}
                               /\ UNCHANGED pending
                          ELSE /\ pending' = Append(pending, f)
                               /\ UNCHANGED <<work, updated>>
                /\ UNCHANGED <<pc, result, status_work, status_pending>>
    /\ UNCHANGED <<program, now, countries, api_status, countries_data, exchange_data,
                   countries_ok, rates_ok, refresh_time, total, rerun>>
    /\ UNCHANGED <<image, render_ok, query, overlap>>

\* update_global_status(db_session, current_refresh_time), then
\* total_countries = db_session.query(Country).count(): the count is taken
\* inside the session, which has flushed nothing.
refresh_main_status ==
    /\ program = "logic.py"
    /\ pc = "loop"
    /\ idx > Len(countries_data)
    /\ LET s == update_global_status(api_status, status_work, status_pending, refresh_time)
       IN  /\ status_work' = s.work
           /\ status_pending' = s.pending
    /\ total' = Len(countries)
    /\ pc' = "exit"
    /\ UNCHANGED <<program, now, countries, api_status, countries_data, exchange_data,
                   countries_ok, rates_ok, idx, refresh_time, work, pending, updated,
                   result, rerun>>
    /\ UNCHANGED <<image, render_ok, query, overlap>>

complete_row(row) == row.name # None /\ row.population # None

\* Mutant of get_db_session: the except branch commits what the constraints
\* admit instead of rolling back.
get_db_session_commits_on_error ==
    /\ pc = "exit"
    /\ LET tbl == flush_script(work, pending)
       IN  IF constraints_script(tbl)
           THEN /\ countries' = tbl
                /\ api_status' = status_work \o status_pending
                /\ result' = "ok"
           ELSE /\ result' = "fatal"
                /\ countries' = SelectSeq(tbl, complete_row)
                /\ api_status' = status_work \o status_pending
    /\ pc' = "idle"
    /\ session_closed
    /\ UNCHANGED <<program, now, countries_data, exchange_data, countries_ok, rates_ok,
                   idx, refresh_time, updated, total, rerun>>
    /\ UNCHANGED <<image, render_ok, query, overlap>>

\* Leaving "with get_db_session()": db_session.commit(); an SQLAlchemyError
\* rolls the session back and is re-raised into refresh_main's except.
get_db_session ==
    /\ pc = "exit"
    /\ LET tbl == flush_script(work, pending)
       IN  IF constraints_script(tbl)
           THEN /\ countries' = tbl
                /\ api_status' = status_work \o status_pending
                /\ result' = "ok"
           ELSE /\ result' = "fatal"
                /\ UNCHANGED <<countries, api_status>>
    /\ pc' = "idle"
    /\ session_closed
    /\ UNCHANGED <<program, now, countries_data, exchange_data, countries_ok, rates_ok,
                   idx, refresh_time, updated, total, rerun>>
    /\ UNCHANGED <<image, render_ok, query, overlap>>

Next ==
    \/ fetch_countries
    \/ fetch_exchange_rates
    \/ refresh_countries_record
    \/ refresh_countries_commit
    \/ generate_summary_image
    \/ fetch_external_data
    \/ process_and_save_countries
    \/ refresh_main_status
    \/ get_db_session

Spec == Init /\ [][Next]_vars

(***************************************************************************)
(* main.py, DELETE /countries/{name} and GET /status, next to the refresh  *)
(* handler.  The handlers are coroutines of one event loop: another        *)
(* request is served only while the refresh handler awaits a fetch.        *)
(***************************************************************************)
DeleteNames == {"chad", "CHAD", "Laos"}

Splice(tbl, k) == SubSeq(tbl, 1, k - 1) \o SubSeq(tbl, k + 1, Len(tbl))

\* The first row whose lower-cased name is name.lower() is deleted and the
\* delete committed; with no such row the answer is a 404.
delete_country ==
    /\ program = "main.py"
    /\ pc \in {"idle", "rates"}
    /\ \E name \in DeleteNames :
          LET country == find_existing_api(countries, Some(name))
          IN  IF country = 0
              THEN UNCHANGED countries
              ELSE countries' = Splice(countries, country)
    /\ UNCHANGED <<program, pc, now, api_status, countries_data, exchange_data,
                   countries_ok, rates_ok, idx, refresh_time, work, pending, updated,
                   status_work, status_pending, total, result, rerun, image, render_ok,
                   query, overlap>>

\* GET /status: total_countries and last_refreshed_at (None without rows)
get_status(tbl) ==
    [total_countries |-> Len(tbl), last_refreshed_at |-> max_last_refreshed_at(tbl)]

NextDelete == Next \/ delete_country

SpecDelete == Init /\ [][NextDelete]_vars

(***************************************************************************)
(* Two refresh invocations on one store.  Neither implementation takes a   *)
(* lock.  The other invocation fetches what this one fetched and runs from *)
(* its fetch to its commit between two steps of this one: logic.py is a    *)
(* script, a second process can run at any point of the first one's        *)
(* session; main.py's handler lets another request run only while it       *)
(* awaits a fetch.  Finer interleavings only add behaviours.               *)
(***************************************************************************)
\* process_and_save_countries over data[i..]: the session's rows and added
\* objects at the end of the loop, or the exception that left it.
RECURSIVE stage_script(_, _, _, _, _, _, _, _)
stage_script(tbl, data, rates, hs, ts, i, wrk, pend) ==
    IF i > Len(data) THEN [work |-> wrk, pending |-> pend, raised |-> FALSE]
    ELSE IF currency_raises(data[i]) THEN [work |-> wrk, pending |-> pend, raised |-> TRUE]
    ELSE LET f == script_fields(data[i], rates, hs[i], ts)
             existing == find_existing_script(tbl, data[i].name)
         IN  IF existing # 0
             THEN stage_script(tbl, data, rates, hs, ts, i + 1,
                               [wrk EXCEPT ![existing] = f], pend)
             ELSE stage_script(tbl, data, rates, hs, ts, i + 1, wrk, Append(pend, f))

\* refresh_main from the fetched data to the end of its with block.
refresh_main_run(tbl, status, data, rates, hs, ts) ==
    LET st == stage_script(tbl, data, rates, hs, ts, 1, tbl, <<>>)
        s == update_global_status(status, status, <<>>, ts)
        flushed == flush_script(st.work, st.pending)
    IN  IF data = <<>>
        THEN [countries |-> tbl, api_status |-> status, result |-> "aborted"]
        ELSE IF st.raised \/ ~constraints_script(flushed)
        THEN [countries |-> tbl, api_status |-> status, result |-> "fatal"]
        ELSE [countries |-> flushed, api_status |-> s.work \o s.pending, result |-> "ok"]

\* The loop of refresh_countries over data[i..].
RECURSIVE stage_api(_, _, _, _, _, _, _, _)
stage_api(tbl, data, rates, ms, ts, i, wrk, pend) ==
    IF i > Len(data) THEN [work |-> wrk, pending |-> pend]
    ELSE IF api_skips(data[i]) \/ currency_raises(data[i])
    THEN stage_api(tbl, data, rates, ms, ts, i + 1, wrk, pend)
    ELSE LET f == api_fields(data[i], rates, ms[i], ts)
             existing == find_existing_api(tbl, data[i].name)
         IN  IF existing # 0
             THEN stage_api(tbl, data, rates, ms, ts, i + 1,
                            [wrk EXCEPT ![existing] = api_update(@, f)], pend)
             ELSE stage_api(tbl, data, rates, ms, ts, i + 1, wrk, Append(pend, f))

\* refresh_countries from the fetched data to its commit.
refresh_countries_run(tbl, data, rates, ms, ts) ==
    LET st == stage_api(tbl, data, rates, ms, ts, 1, tbl, <<>>)
        flushed == flush_api(tbl, st.work, st.pending, ts)
    IN  IF constraints_api(flushed)
        THEN [countries |-> flushed, result |-> "ok"]
        ELSE [countries |-> tbl, result |-> "500"]

\* A second refresh_main runs while this one is inside its with block.  The
\* session of this one keeps the objects it has written to; every other row
\* it reads from now on is the committed one.
overlapping_refresh_main ==
    /\ program = "logic.py"
    /\ pc \in {"loop", "exit"}
    /\ overlap = None
    /\ now < MaxTime
    /\ now' = now + 1
    /\ \E hs \in [1..Len(countries_data) -> HalfMultipliers] :
          LET run == refresh_main_run(countries, api_status, countries_data,
                                      exchange_data, hs, now')
          IN  /\ countries' = run.countries
              /\ api_status' = run.api_status
              /\ overlap' = Some([base |-> countries, result |-> run.result])
    /\ work' = [k \in 1..Len(countries') |->
                   IF k \in updated THEN work[k] ELSE countries'[k]]
    /\ status_work' = IF pc = "loop" \/ status_work = <<>>
                      THEN api_status'
                      ELSE [api_status' EXCEPT ![1] = status_work[1]]
    /\ UNCHANGED <<program, pc, countries_data, exchange_data, countries_ok, rates_ok,
                   idx, refresh_time, pending, updated, status_pending, total, result,
                   rerun, image, render_ok, query>>

\* A second POST /countries/refresh is served while this one awaits the
\* rate source.
overlapping_refresh_countries ==
    /\ program = "main.py"
    /\ pc = "rates"
    /\ overlap = None
    /\ now < MaxTime
    /\ now' = now + 1
    /\ \E rates \in RateMaps, ms \in [1..Len(countries_data) -> Multipliers] :
          LET run == refresh_countries_run(countries, countries_data, rates, ms, now')
          IN  /\ countries' = run.countries
              /\ overlap' = Some([base |-> countries, result |-> run.result])
              /\ IF run.result = "ok"
                 THEN \/ /\ render_ok' = TRUE
                         /\ image' = Some(summary_image(run.countries))
                      \/ /\ render_ok' = FALSE
                         /\ UNCHANGED image
                 ELSE UNCHANGED <<image, render_ok>>
    /\ UNCHANGED <<program, pc, api_status, countries_data, exchange_data, countries_ok,
                   rates_ok, idx, refresh_time, work, pending, updated, status_work,
                   status_pending, total, result, rerun, query>>

NextOverlap == Next \/ overlapping_refresh_main \/ overlapping_refresh_countries

SpecOverlap == Init /\ [][NextOverlap]_vars

(***************************************************************************)
(* Properties of the refresh cycle.                                        *)
(***************************************************************************)
\* The value a cycle with timestamp t stores in last_refreshed_at: main.py
\* stores the datetime, logic.py its isoformat() string.
Stamp(t) == IF program = "main.py" THEN t ELSE isoformat(t)

\* A fetched record with a name, a positive population and well-formed currencies.
Valid(r) == r.name # None /\ r.population \notin {None, Some(0)} /\ ~currency_raises(r)

\* The cycle went past its fetches and into the loop.
Reconciled == pc = "idle" /\ result \in {"ok", "500", "fatal"}

\* C1: if the rate source fails in a cycle, no step of that cycle changes the
\* stored country rows or the status record.
C1_RateFailureWritesNothing ==
    [][~rates_ok' => (countries' = countries /\ api_status' = api_status)]_vars

\* C2: a cycle whose country source failed or answered the empty list ends
\* as a failure (aborted / 503), never as a success, and writes nothing.
C2_NoCountriesAborts ==
    /\ []((pc = "idle" /\ result # "none" /\ (~countries_ok \/ countries_data = <<>>))
            => result \in {"aborted", "503"})
    /\ [][(~countries_ok' \/ countries_data' = <<>>)
            => (countries' = countries /\ api_status' = api_status)]_vars

\* C3: the committed tables change only in the step that ends a cycle with
\* success, and that step makes every write of the cycle visible at once: each
\* updated row, each inserted row and (logic.py) the status update.  A cycle
\* that ends in failure has changed nothing.
C3_CycleIsAtomic ==
    [][/\ (countries' # countries \/ api_status' # api_status)
            => (result = "none" /\ result' = "ok")
       /\ (result = "none" /\ result' = "ok")
            => /\ idx > Len(countries_data)
               /\ Len(countries') = Len(countries) + Len(pending)
               /\ \A k \in 1..Len(countries) :
                     countries'[k] = IF k \in updated THEN work[k] ELSE countries[k]
               /\ \A j \in 1..Len(pending) : countries'[Len(countries) + j] = pending[j]
               /\ program = "logic.py" =>
                     /\ Len(api_status') = 1
                     /\ api_status'[1] = isoformat(refresh_time)]_vars

\* C3 witness: a commit failed after updates to stored rows had been staged,
\* and the stored rows are still there.
C3_Witness ==
    /\ pc = "idle" /\ result \in {"fatal", "500"}
    /\ idx > Len(countries_data)
    /\ updated # {}
    /\ Len(countries) > 0

\* C4: a cycle that fetches what the successful cycle before it fetched finds
\* a stored row for every record it processes (nothing is pending insertion)
\* and leaves the number of stored rows unchanged.
C4_RerunKeepsRowCount ==
    /\ [](rerun => pending = <<>>)
    /\ [][rerun => Len(countries') = Len(countries)]_vars

\* C4 witness: a successful rerun updated a stored row whose name differs from
\* the fetched name only in letter case.
C4_Witness ==
    /\ pc = "idle" /\ result = "ok" /\ rerun
    /\ \E k \in updated : \E i \in 1..Len(countries_data) :
          /\ Valid(countries_data[i])
          /\ countries_data[i].name # countries[k].name
          /\ Lower(Val(countries_data[i].name)) = Lower(Val(countries[k].name))
          /\ find_existing_api(countries, countries_data[i].name) = k

\* A successful cycle fetched two valid records whose names differ only in
\* letter case, and no stored row matched either of them.
CaseTwins ==
    /\ pc = "idle" /\ result = "ok" /\ updated = {}
    /\ Len(countries_data) = 2
    /\ Valid(countries_data[1]) /\ Valid(countries_data[2])
    /\ countries_data[1].name # countries_data[2].name
    /\ Lower(Val(countries_data[1].name)) = Lower(Val(countries_data[2].name))

\* C5: after such a cycle exactly one row is stored for that country, and it
\* carries the fields of the second occurrence.
C5_CaseTwinsOneRow ==
    CaseTwins =>
        LET second == countries_data[2]
            hits == {k \in 1..Len(countries) :
                        Lower(Val(countries[k].name)) = Lower(Val(second.name))}
        IN  /\ Cardinality(hits) = 1
            /\ \A k \in hits : /\ countries[k].population = second.population
                               /\ countries[k].currency_code = currency_of(second)

\* C6: a stored row whose currency_code is null has estimated_gdp zero.
C6_NullCurrencyZeroGdp ==
    \A k \in 1..Len(countries) :
        countries[k].currency_code = None => countries[k].estimated_gdp = Some(0)

\* C7: in the step that ends a cycle with success, every row the cycle updated
\* or inserted carries the cycle's one timestamp.
C7_SharedTimestamp ==
    [][(result = "none" /\ result' = "ok")
         => \A k \in updated \cup (Len(countries) + 1 .. Len(countries')) :
               countries'[k].last_refreshed_at = Stamp(refresh_time)]_vars

\* C7 witness: a successful cycle both updated a stored row and inserted one.
C7_Witness ==
    /\ pc = "idle" /\ result = "ok"
    /\ updated # {}
    /\ \E k \in 1..Len(countries) :
          /\ k \notin updated
          /\ countries[k].last_refreshed_at = Stamp(refresh_time)
    /\ \A k \in updated : countries[k].last_refreshed_at = Stamp(refresh_time)

\* C8: the status record's last_updated never decreases (as the stored
\* string compares), and it changes only in the commit that follows a complete
\* reconciliation and lands that cycle's country writes with it.
C8_StatusOnlyAdvances ==
    [][api_status' # api_status
         => /\ Len(api_status) > 0 => StrLeq(api_status[1], api_status'[1])
            /\ pc = "exit" /\ idx > Len(countries_data)
            /\ result = "none" /\ result' = "ok"
            /\ api_status'[1] = isoformat(refresh_time)
            /\ countries' = work \o pending]_vars

\* C8 witness: the status was written by a second successful cycle, after a
\* first one whose row is still stored with the earlier timestamp.
C8_Witness ==
    /\ pc = "idle" /\ result = "ok" /\ program = "logic.py"
    /\ Len(api_status) = 1 /\ api_status[1] = isoformat(refresh_time)
    /\ \E k \in 1..Len(countries) :
          /\ countries[k].last_refreshed_at # isoformat(refresh_time)
          /\ StrLeq(countries[k].last_refreshed_at, api_status[1])

\* C10: after a cycle that reached the loop, every valid record of the batch
\* is stored with the cycle's timestamp, whatever happened to the other
\* records of the batch.
C10_RecordFailureIsolated ==
    Reconciled =>
        \A i \in 1..Len(countries_data) :
            Valid(countries_data[i]) =>
                \E k \in 1..Len(countries) :
                    /\ Lower(Val(countries[k].name)) = Lower(Val(countries_data[i].name))
                    /\ countries[k].last_refreshed_at = Stamp(refresh_time)

\* A fetched record the reconciler is to skip: no name, or a population that
\* is missing or zero.
Skippable(r) == r.name = None \/ r.population \in {None, Some(0)}

\* C11: a cycle whose fetched records are all skippable inserts no row and
\* changes no stored row.
C11_SkippableRecordsWriteNothing ==
    [][(\A i \in 1..Len(countries_data) : Skippable(countries_data[i]))
         => countries' = countries]_vars

\* C12: the image is rendered only once the cycle's commit has gone through,
\* from the committed rows; whether the renderer returns or raises, that step
\* leaves the committed rows as they are and the cycle ends as a success
\* that reports the stored row count.
C12_RenderFailureKeepsCommit ==
    /\ [](pc = "render" => (result = "ok" /\ work = <<>> /\ pending = <<>>))
    /\ [][image' # image
            => (pc = "render" /\ image' = Some(summary_image(countries)))]_vars
    /\ [][pc = "render"
            => /\ countries' = countries
               /\ result' = "ok"
               /\ pc' = "idle"
               /\ total' = Len(countries)]_vars

\* C12 witness: a cycle stored a row with its timestamp, its rendering
\* failed, and the cycle ended as a success with the image left as it was.
C12_Witness ==
    /\ program = "main.py" /\ pc = "idle" /\ result = "ok"
    /\ ~render_ok
    /\ image # Some(summary_image(countries))
    /\ \E k \in 1..Len(countries) : countries[k].last_refreshed_at = refresh_time

\* C14: the step in which a cycle ends as a success reports a total equal to
\* the number of country rows stored after that step, the cycle's own
\* inserts included.
C14_TotalIsStoredCount ==
    [][(pc # "idle" /\ pc' = "idle" /\ result' = "ok") => total' = Len(countries')]_vars

\* The fetched batch of the cycle holds a record that the implementation's
\* lookup matches with stored row k.
InBatch(k) ==
    \E i \in 1..Len(countries_data) :
        /\ countries_data[i].name # None
        /\ IF program = "main.py"
           THEN Lower(Val(countries_data[i].name)) = Lower(Val(countries[k].name))
           ELSE countries_data[i].name = countries[k].name

\* C15: every step either is the delete of one stored row by a name that
\* matches it and is no step of a refresh cycle, or keeps every stored row in
\* its place under its name, and unchanged when the fetched batch does not name
\* it; rows are otherwise only added.
C15_RefreshNeverDeletes ==
    [][\/ /\ program = "main.py"
          /\ UNCHANGED <<pc, idx, now, result, total, work, pending>>
          /\ \E n \in DeleteNames :
                LET k == find_existing_api(countries, Some(n))
                IN  /\ k # 0
                    /\ Lower(Val(countries[k].name)) = Lower(n)
                    /\ countries' = Splice(countries, k)
       \/ /\ Len(countries') >= Len(countries)
          /\ \A k \in 1..Len(countries) :
                /\ countries'[k].name = countries[k].name
                /\ ~InBatch(k) => countries'[k] = countries[k]]_vars

\* C15 witness: a successful cycle stored a row with its timestamp next to a
\* row of an earlier cycle that its batch does not name.
C15_Witness ==
    /\ pc = "idle" /\ result = "ok"
    /\ \E k, j \in 1..Len(countries) :
          /\ ~InBatch(k)
          /\ countries[k].last_refreshed_at # Stamp(refresh_time)
          /\ countries[j].last_refreshed_at = Stamp(refresh_time)

\* C17: in main.py no step lowers the last_refreshed_at that GET /status
\* reports, and once it reports a timestamp it never reports null again.
C17_ReportedRefreshTimeAdvances ==
    [][program = "main.py" =>
          LET before == get_status(countries).last_refreshed_at
              after == get_status(countries').last_refreshed_at
          IN  before # None => (after # None /\ Val(before) <= Val(after))]_vars

row_names(tbl) == [k \in 1..Len(tbl) |-> tbl[k].name]

no_twins(names) == \A j, k \in 1..Len(names) : j # k => names[j] # names[k]

\* The names stored, in rowid order, after two cycles that fetched the
\* current batch ran one after the other on table base.  The names do not
\* depend on the rates and the random multipliers of the cycles.
serial_names(base) ==
    LET n == Len(countries_data)
    IN  IF program = "logic.py"
        THEN LET hs == [i \in 1..n |-> 1]
                 first == refresh_main_run(base, <<>>, countries_data, EmptyMap, hs, 1)
             IN  row_names(refresh_main_run(first.countries, <<>>, countries_data,
                                            EmptyMap, hs, 2).countries)
        ELSE LET ms == [i \in 1..n |-> 1000]
                 first == refresh_countries_run(base, countries_data, EmptyMap, ms, 1)
             IN  row_names(refresh_countries_run(first.countries, countries_data,
                                                 EmptyMap, ms, 2).countries)

\* C16: when a refresh invocation that was overlapped by another one has
\* ended and both succeeded, the stored rows carry the names that the two
\* cycles leave when run one after the other; where those names are all
\* different, no two stored rows carry the same name.
C16_OverlapIsSerial ==
    (pc = "idle" /\ result = "ok" /\ overlap # None /\ Val(overlap).result = "ok")
        => /\ row_names(countries) = serial_names(Val(overlap).base)
           /\ no_twins(serial_names(Val(overlap).base)) => no_twins(row_names(countries))

(***************************************************************************)
(* update_global_status under any caller: sessions of get_db_session in    *)
(* which it is called any number of times, with any timestamps, before the *)
(* session commits or rolls back.  idx counts the calls of the session,    *)
(* total the calls of the behaviour, refresh_time is the last timestamp.   *)
(***************************************************************************)
InitStatus ==
    /\ program = "logic.py"
    /\ pc = "closed"
    /\ now = 0
    /\ countries = <<>>
    /\ api_status = <<>>
    /\ countries_data = <<>>
    /\ exchange_data = EmptyMap
    /\ countries_ok = TRUE
    /\ rates_ok = TRUE
    /\ idx = 1
    /\ refresh_time = 0
    /\ work = <<>>
    /\ pending = <<>>
    /\ updated = {}
    /\ status_work = <<>>
    /\ status_pending = <<>>
    /\ total = 0
    /\ result = "none"
    /\ rerun = FALSE
    /\ image = None
    /\ render_ok = TRUE
    /\ query = None
    /\ overlap = None

status_unchanged ==
    UNCHANGED <<program, now, countries, countries_data, exchange_data, countries_ok,
                rates_ok, work, pending, updated, rerun, image, render_ok, query,
                overlap>>

\* db_session = SessionLocal()
status_session_open ==
    /\ pc = "closed"
    /\ total < MaxCalls
    /\ pc' = "open"
    /\ status_work' = api_status
    /\ status_pending' = <<>>
    /\ idx' = 1
    /\ result' = "none"
    /\ UNCHANGED <<api_status, refresh_time, total>>
    /\ status_unchanged

\* update_global_status(db_session, refresh_time)
status_call ==
    /\ pc = "open"
    /\ total < MaxCalls
    /\ \E t \in 0..MaxTime :
          LET s == update_global_status(api_status, status_work, status_pending, t)
          IN  /\ status_work' = s.work
              /\ status_pending' = s.pending
              /\ refresh_time' = t
    /\ idx' = idx + 1
    /\ total' = total + 1
    /\ UNCHANGED <<pc, api_status, result>>
    /\ status_unchanged

\* db_session.commit()
status_session_commit ==
    /\ pc = "open"
    /\ api_status' = status_work \o status_pending
    /\ pc' = "closed"
    /\ result' = "ok"
    /\ status_work' = <<>>
    /\ status_pending' = <<>>
    /\ UNCHANGED <<idx, refresh_time, total>>
    /\ status_unchanged

\* db_session.rollback()
status_session_rollback ==
    /\ pc = "open"
    /\ pc' = "closed"
    /\ result' = "fatal"
    /\ status_work' = <<>>
    /\ status_pending' = <<>>
    /\ UNCHANGED <<api_status, idx, refresh_time, total>>
    /\ status_unchanged

NextStatus ==
    \/ status_session_open
    \/ status_call
    \/ status_session_commit
    \/ status_session_rollback

SpecStatus == InitStatus /\ [][NextStatus]_vars

\* C9: the status table never holds more than one row, a committed session
\* with at least one call leaves exactly one, and a call with the timestamp
\* of the call before it in the same session changes nothing.
C9_StatusSingletonIdempotent ==
    /\ [](Len(api_status) <= 1)
    /\ [][(pc = "open" /\ result' = "ok" /\ idx > 1) => Len(api_status') = 1]_vars
    /\ [][(pc = "open" /\ pc' = "open" /\ idx > 1 /\ refresh_time' = refresh_time)
            => (status_work' = status_work /\ status_pending' = status_pending)]_vars

(***************************************************************************)
(* src/api/endpoints/country.py, read_countries (GET /countries/), over    *)
(* tables of rows the refresh script stores.  Requests carry a skip and a  *)
(* limit that are not negative: what a negative OFFSET or LIMIT does is    *)
(* the database's choice.                                                  *)
(***************************************************************************)
MaxRows == 3       \* most rows of a queried table
MaxSkip == 3       \* largest skip of a request
MaxLimit == 3      \* largest limit of a request

\* Records of three countries: two regions that share a letter, and none.
QueryRecords ==
    {Record(Some("Chad"), Some(2), <<>>),
     Record(Some("Laos"), Some(3), <<>>),
     Record(Some("Bouvet"), Some(2), <<>>)}

QueryRows == {script_fields(r, EmptyMap, h, 1) : r \in QueryRecords, h \in HalfMultipliers}

RegionFilters ==
    {None, Some(<<>>), Some(<<"a">>), Some(<<"A", "S">>), Some(<<"e", "u">>)}

SortKeys == {None, Some("name"), Some("population"), Some("estimated_gdp"), Some("id")}

lower_char(c) == CASE c = "A" -> "a"
                   [] c = "S" -> "s"
                   [] OTHER -> c

lower_str(str) == [i \in 1..Len(str) |-> lower_char(str[i])]

contains(str, sub) ==
    \E i \in 1..(Len(str) - Len(sub) + 1) : SubSeq(str, i, i + Len(sub) - 1) = sub

\* Country.region.ilike(f"%{region}%"); a NULL region matches no pattern.
ilike(value, pattern) ==
    value # None /\ contains(lower_str(Val(value)), lower_str(pattern))

\* "if region:" is false for no parameter and for the empty string.
region_hits(tbl, region) ==
    {k \in 1..Len(tbl) : region \in {None, Some(<<>>)} \/ ilike(tbl[k].region, Val(region))}

\* The names of the model in the order of their code points.
name_key(n) == CASE n = "Bouvet" -> 1
                 [] n = "CHAD" -> 2
                 [] n = "Chad" -> 3
                 [] OTHER -> 4

\* order_by(sort_column.desc()) for the numbers (NULL sorts as the smallest
\* value), order_by(sort_column.asc()) for name, no ORDER BY for any other
\* sort_by.
sort_keys(rows, sort_by) ==
    [k \in 1..Len(rows) |->
        CASE sort_by = Some("population") -> Val(rows[k].population)
          [] sort_by = Some("estimated_gdp") ->
                IF rows[k].estimated_gdp = None THEN 0 - 1 ELSE Val(rows[k].estimated_gdp)
          [] sort_by = Some("name") -> 0 - name_key(Val(rows[k].name))
          [] OTHER -> 0]

\* query.offset(skip).limit(limit).all()
page_of(tbl, skip, limit, region, sort_by) ==
    LET hits == region_hits(tbl, region)
        rows == [p \in 1..Cardinality(hits) |->
                    tbl[CHOOSE k \in hits : Cardinality({j \in hits : j < k}) = p - 1]]
        ord == desc_order(sort_keys(rows, sort_by))
        last == IF skip + limit < Len(rows) THEN skip + limit ELSE Len(rows)
    IN  [p \in 1..(IF last > skip THEN last - skip ELSE 0) |-> rows[ord[skip + p]]]

\* Mutant of respond: the 404 is raised for every empty page.
respond_empty_is_404(page, skip) ==
    IF page = <<>>
    THEN [status |-> 404, countries |-> <<>>]
    ELSE [status |-> 200, countries |-> page]

\* "if not countries and skip > 0: raise HTTPException(404)", else the list
respond(page, skip) ==
    IF page = <<>> /\ skip > 0
    THEN [status |-> 404, countries |-> <<>>]
    ELSE [status |-> 200, countries |-> page]

InitQuery ==
    /\ program = "logic.py"
    /\ pc = "idle"
    /\ now = 1
    /\ countries \in SeqsUpTo(QueryRows, MaxRows)
    /\ api_status = <<>>
    /\ countries_data = <<>>
    /\ exchange_data = EmptyMap
    /\ countries_ok = TRUE
    /\ rates_ok = TRUE
    /\ idx = 1
    /\ refresh_time = 0
    /\ work = <<>>
    /\ pending = <<>>
    /\ updated = {}
    /\ status_work = <<>>
    /\ status_pending = <<>>
    /\ total = 0
    /\ result = "none"
    /\ rerun = FALSE
    /\ image = None
    /\ render_ok = TRUE
    /\ query = None
    /\ overlap = None

\* One request per behaviour: the answer depends on the table and the
\* request alone.
read_countries ==
    /\ query = None
    /\ \E skip \in 0..MaxSkip, limit \in 0..MaxLimit,
          region \in RegionFilters, sort_by \in SortKeys :
          query' = Some([skip |-> skip, limit |-> limit, region |-> region,
                         sort_by |-> sort_by,
                         answer |-> respond(page_of(countries, skip, limit, region, sort_by),
                                            skip)])
    /\ UNCHANGED <<program, pc, now, countries, api_status, countries_data,
                   exchange_data, countries_ok, rates_ok, idx, refresh_time, work,
                   pending, updated, status_work, status_pending, total, result, rerun,
                   image, render_ok, overlap>>

NextQuery == read_countries

SpecQuery == InitQuery /\ [][NextQuery]_vars

\* The request yields no row: its limit is zero, or its skip is not smaller
\* than the number of stored rows that match its region filter.
YieldsNoRow(q) ==
    q.limit = 0 \/ q.skip >= Cardinality(region_hits(countries, q.region))

\* C13: a request that yields no row is answered with the 404 when its skip
\* is positive and with the empty list, without error, when its skip is zero;
\* no other request is answered with the 404.
C13_EmptyPageOutcomes ==
    query # None =>
        LET q == Val(query)
        IN  /\ (YieldsNoRow(q) /\ q.skip > 0) => q.answer.status = 404
            /\ (YieldsNoRow(q) /\ q.skip = 0)
                  => (q.answer.status = 200 /\ q.answer.countries = <<>>)
            /\ ~YieldsNoRow(q) => (q.answer.status = 200 /\ q.answer.countries # <<>>)

\* C13 witness: on a table with rows, a region filter that some row matches
\* and a positive skip past the matching rows got the 404.
C13_Witness ==
    /\ query # None
    /\ Val(query).skip > 0
    /\ Val(query).limit > 0
    /\ Val(query).region \notin {None, Some(<<>>)}
    /\ region_hits(countries, Val(query).region) # {}
    /\ Cardinality(region_hits(countries, Val(query).region)) < Len(countries)
    /\ Val(query).answer.status = 404

\* C18: a request is answered with the 404 only when its skip is at or
\* beyond the number of stored rows that match its region filter; with a
\* smaller skip it is answered with a list, whatever its limit.
C18_NotFoundOnlyOutOfRange ==
    query # None =>
        LET q == Val(query)
            matching == Cardinality(region_hits(countries, q.region))
        IN  /\ q.answer.status = 404 => q.skip >= matching
            /\ q.skip < matching => q.answer.status = 200

====
